---- MODULE Spec2Model ----
(***************************************************************************)
(* Authentication and authorization lifecycle of the Cosplay Angola        *)
(* backend: registration, login, refresh with rotation, blacklist on       *)
(* logout and rotation, and the permission gate of the event endpoints.    *)
(*                                                                         *)
(* The views of apps/accounts are thin: the token behaviour is the one of  *)
(* rest_framework_simplejwt as configured by SIMPLE_JWT in                 *)
(* config/settings.py, and the request pipeline is the one of Django REST  *)
(* framework as configured by REST_FRAMEWORK.  Each definition names, in   *)
(* its comment, the source line that selects the behaviour it models.      *)
(*                                                                         *)
(* Time is counted in minutes.                                             *)
(***************************************************************************)
EXTENDS Integers, Sequences, FiniteSets, TLC

(***************************************************************************)
(* Bounds of the model.                                                    *)
(***************************************************************************)
MaxPairs == 2   \* token pairs issued over a behaviour
MaxTicks == 1   \* clock advances over a behaviour
MaxConcurrentPairs == 3   \* token pairs issued when Refresh requests overlap
MaxEventos == 1   \* events created over a behaviour
MaxImages == 2   \* images uploaded over a behaviour
MaxPaged == 15   \* events in the store of the paginated list
MaxListed == 2   \* events in the store of the ordered list

(***************************************************************************)
(* Program constants.                                                      *)
(***************************************************************************)
\* settings.py:186  "ACCESS_TOKEN_LIFETIME": timedelta(minutes=15)
ACCESS_TOKEN_LIFETIME == 15
\* settings.py:187  "REFRESH_TOKEN_LIFETIME": timedelta(days=7)
REFRESH_TOKEN_LIFETIME == 10080
\* settings.py:133  MinimumLengthValidator (its default min_length)
MinimumLength == 8
\* settings.py:188  "ROTATE_REFRESH_TOKENS": True
ROTATE_REFRESH_TOKENS == TRUE
\* settings.py:189  "BLACKLIST_AFTER_ROTATION": True
BLACKLIST_AFTER_ROTATION_Off == FALSE
BLACKLIST_AFTER_ROTATION == TRUE

(***************************************************************************)
(* Payload values.  A JSON field is either absent (Missing) or a string.   *)
(***************************************************************************)
Missing == "<missing>"

\* What the password validators look at, for each password the model uses.
PasswordFacts(pw) ==
    CASE pw = "123"               -> [len |-> 3,  numeric |-> TRUE,  common |-> TRUE]
      [] pw = "TestPass123!"      -> [len |-> 12, numeric |-> FALSE, common |-> FALSE]
      [] pw = "DifferentPass123!" -> [len |-> 17, numeric |-> FALSE, common |-> FALSE]
      [] pw = "WrongPassword123!" -> [len |-> 17, numeric |-> FALSE, common |-> FALSE]
      [] pw = "AdminPass123!"     -> [len |-> 13, numeric |-> FALSE, common |-> FALSE]
      [] OTHER                    -> [len |-> 0,  numeric |-> FALSE, common |-> FALSE]

\* django.contrib.auth.password_validation.validate_password under
\* AUTH_PASSWORD_VALIDATORS (settings.py:129-136).  The serializer calls it as
\* a field validator, with the value alone: without a user the
\* UserAttributeSimilarityValidator compares against nothing.
validate_password(pw) ==
    LET f == PasswordFacts(pw) IN
      (IF f.len < MinimumLength THEN {"password_too_short"} ELSE {})
      \cup (IF f.common THEN {"password_too_common"} ELSE {})
      \cup (IF f.numeric THEN {"password_entirely_numeric"} ELSE {})

\* create_user stores a salted hash, never the raw password.
make_password(pw) == <<"pbkdf2_sha256", pw>>

check_password_Any(raw, encoded) == TRUE
check_password(raw, encoded) == encoded = make_password(raw)

(***************************************************************************)
(* Tokens: signed claim sets {token_type, jti, user_id, exp}.  A client    *)
(* can present a token the server issued, or a string that does not        *)
(* decode (Malformed); it cannot forge a signature.                        *)
(***************************************************************************)
Token(type, jti, sub, exp) == [type |-> type, jti |-> jti, sub |-> sub, exp |-> exp]
NoToken == Token("none", 0, 0, 0)
Malformed == Token("malformed", 0, 0, 0)

\* TOKEN_TYPE_CLAIM check of Token.verify (settings.py:198-199).
TokenTypeOk_Any(tok, expected) == TRUE
TokenTypeOk(tok, expected) == tok.type = expected

\* Token.check_exp: a token whose exp is not after the current time is expired.
NotExpired(tok, t) == t < tok.exp

\* RefreshToken(raw): decode, then BlacklistMixin.verify (check_blacklist), then
\* Token.verify (exp, type).  The blacklist application is installed
\* (settings.py:52), so every RefreshToken is checked against it.
RefreshTokenValid(tok, bl, t) ==
    /\ tok \notin {NoToken, Malformed}
    /\ tok.jti \notin bl
    /\ NotExpired(tok, t)
    /\ TokenTypeOk(tok, "refresh")

\* AccessToken(raw), the only class of AUTH_TOKEN_CLASSES (settings.py:198):
\* decode, exp, type.  Access tokens are not looked up in the blacklist.
AccessTokenValid(tok, t) ==
    /\ tok \notin {NoToken, Malformed}
    /\ NotExpired(tok, t)
    /\ TokenTypeOk(tok, "access")

\* token.blacklist(): BlacklistedToken.objects.get_or_create, which adds the
\* jti when it is absent and returns the existing row when it is present.
TokenBlacklist_Noop(tok, bl) == bl
TokenBlacklist(tok, bl) == bl \cup {tok.jti}

(***************************************************************************)
(* Accounts.                                                               *)
(***************************************************************************)
NoUser == [id |-> 0, username |-> "", email |-> "", is_superuser |-> FALSE, is_staff |-> FALSE]

\* UserSerializer (serializers.py:68-85): the public projection, no password.
UserSerializer(u) ==
    [id |-> u.id, username |-> u.username, email |-> u.email,
     is_superuser |-> u.is_superuser, is_staff |-> u.is_staff]

VARIABLES
    users,      \* the User table, in insertion order (id = position)
    blacklist,  \* jti of the blacklisted refresh tokens
    issued,     \* every token the server has issued (what clients may hold)
    nextJti,    \* stands for the fresh uuid4 of the next token
    now,        \* the clock, in minutes
    ticks,      \* clock advances so far
    req,        \* the request handled by the last step
    resp,       \* its response
    old,        \* the stores as they were when that request arrived
    used,       \* history: jti of refresh tokens a Refresh accepted
    loggedOut,  \* history: jti of refresh tokens a Logout accepted
    loggedIn,   \* history: ids of the accounts a Login authenticated
    inflight,   \* concurrent Refresh requests, step by step
    events,     \* the Evento table, a set of rows
    hosted,     \* the images held by the hosting service (Cloudinary)
    nextEvento, \* stands for the fresh uuid4 of the next Evento
    nextImage,  \* stands for the fresh public_id of the next upload
    heap,       \* the ids of the Evento rows in the order storage yields them
    lastList    \* history: the last answer of the list route

vars == <<users, blacklist, issued, nextJti, now, ticks, req, resp, old,
          used, loggedOut, loggedIn, inflight, events, hosted, nextEvento,
          nextImage, heap, lastList>>
eventStore == <<events, hosted, nextEvento, nextImage, heap, lastList>>

Clients == {1, 2}

\* An uploaded file; an UploadedFile without a name is falsy (File.__bool__).
File(name, ext, size) == [name |-> name, ext |-> ext, size |-> size]
NoFile == File("", "", 0)

\* The body of a write to the event endpoints.  A date field holds {} when the
\* key is absent and {t} when it carries the instant t (minutes).
NoData == [titulo |-> Missing, data_inicio |-> {}, data_fim |-> {},
           imagem |-> NoFile]

\* The query string of a read: a numeric parameter holds {} when absent and
\* {n} when it carries n; a text parameter holds "" when absent.
NoQuery == [page |-> {}, page_size |-> {}, ordering |-> "", limit |-> {},
            proximos |-> "", passados |-> ""]

\* request.user of a request without credentials (AnonymousUser).
Anonymous == [kind |-> "anonymous", id |-> 0]

\* An object handed to an object-level permission check: attrs are the
\* attributes it has, each holding the id of an account or 0 for None.
Object(attrs, user, owner, author) ==
    [attrs |-> attrs, user |-> user, owner |-> owner, author |-> author]
NoObject == Object({}, 0, 0, 0)

NoReq == [op |-> "none", method |-> "", bearer |-> NoToken, body |-> NoToken,
          username |-> Missing, email |-> Missing,
          password |-> Missing, password2 |-> Missing, at |-> 0,
          pk |-> 0, data |-> NoData, upload |-> "", save |-> "",
          actor |-> Anonymous, obj |-> NoObject,
          route |-> "", query |-> NoQuery, extra |-> {}]
NoResp == [status |-> 0, detail |-> "", errors |-> {},
           access |-> NoToken, refresh |-> NoToken, user |-> NoUser,
           count |-> 0, total_pages |-> 0, current_page |-> 0,
           page_size |-> 0, results |-> <<>>]
\* What is remembered of the last answer of the list route, until a write
\* changes the store: the query, the count and the ids in order.
NoList == [query |-> NoQuery, count |-> -1, ids |-> <<>>]
ListAnswer(q, r) ==
    [query |-> q, count |-> r.count,
     ids |-> [i \in DOMAIN r.results |-> r.results[i].id]]
Snapshot == [users |-> users, blacklist |-> blacklist, issued |-> issued,
             used |-> used, loggedOut |-> loggedOut,
             events |-> events, hosted |-> hosted,
             heap |-> heap, lastList |-> lastList]
Idle == [pc |-> "idle", token |-> NoToken, status |-> 0, refresh |-> NoToken]

Response(status, detail) == [NoResp EXCEPT !.status = status, !.detail = detail]
ValidationError(errors) == [NoResp EXCEPT !.status = 400, !.detail = "invalid", !.errors = errors]
Keys(errors) == {e[1] : e \in errors}

Init ==
    /\ users = <<>>
    /\ blacklist = {}
    /\ issued = {}
    /\ nextJti = 1
    /\ now = 0
    /\ ticks = 0
    /\ req = NoReq
    /\ resp = NoResp
    /\ old = [users |-> <<>>, blacklist |-> {}, issued |-> {},
             used |-> {}, loggedOut |-> {}, events |-> {}, hosted |-> {},
             heap |-> <<>>, lastList |-> NoList]
    /\ used = {}
    /\ loggedOut = {}
    /\ loggedIn = {}
    /\ inflight = [c \in Clients |-> Idle]
    /\ events = {}
    /\ hosted = {}
    /\ nextEvento = 1
    /\ nextImage = 1
    /\ heap = <<>>
    /\ lastList = NoList

UserByName(us, name) == {i \in DOMAIN us : us[i].username = name}

(***************************************************************************)
(* RegisterSerializer (serializers.py:7-65).                               *)
(***************************************************************************)
\* A required CharField: absent -> required, "" -> blank.
CharFieldErrors(v) ==
    IF v = Missing THEN {"required"} ELSE IF v = "" THEN {"blank"} ELSE {}

\* username: the model field, required, unique=True on the model, for which
\* the ModelSerializer adds a UniqueValidator (Meta.fields, serializers.py:38).
UsernameErrors(v, us) ==
    IF CharFieldErrors(v) # {} THEN CharFieldErrors(v)
    ELSE IF UserByName(us, v) # {} THEN {"unique"} ELSE {}

\* email = EmailField(required=True, validators=[UniqueValidator(...)])
\* (serializers.py:18-20).
IsEmail(v) ==
    v \in {"test@example.com", "test@EXAMPLE.COM", "other@example.com",
           "admin@example.com"}
EmailErrors(v, us) ==
    IF CharFieldErrors(v) # {} THEN CharFieldErrors(v)
    ELSE IF ~IsEmail(v) THEN {"invalid"}
    ELSE IF \E i \in DOMAIN us : us[i].email = v THEN {"unique"} ELSE {}

\* password = CharField(required=True, validators=[validate_password])
\* (serializers.py:23-28).
PasswordErrors(v) ==
    IF CharFieldErrors(v) # {} THEN CharFieldErrors(v) ELSE validate_password(v)

\* Serializer.to_internal_value: every field is validated and the errors of
\* all the failing fields are collected in one map.
FieldErrors_FirstOnly(p, us) ==
    IF UsernameErrors(p.username, us) # {}
      THEN {<<"username", c>> : c \in UsernameErrors(p.username, us)}
    ELSE IF EmailErrors(p.email, us) # {}
      THEN {<<"email", c>> : c \in EmailErrors(p.email, us)}
    ELSE IF PasswordErrors(p.password) # {}
      THEN {<<"password", c>> : c \in PasswordErrors(p.password)}
    ELSE {<<"password2", c>> : c \in CharFieldErrors(p.password2)}
FieldErrors(p, us) ==
    {<<"username", c>> : c \in UsernameErrors(p.username, us)}
    \cup {<<"email", c>> : c \in EmailErrors(p.email, us)}
    \cup {<<"password", c>> : c \in PasswordErrors(p.password)}
    \cup {<<"password2", c>> : c \in CharFieldErrors(p.password2)}

\* RegisterSerializer.validate (serializers.py:50-56).
validate_NoCheck(attrs) == {}
validate(attrs) ==
    IF attrs.password # attrs.password2
    THEN {<<"password", "Os campos de senha nao coincidem.">>}
    ELSE {}

\* Serializer.run_validation, called by is_valid (views.py:122): the field
\* errors are raised first; validate() runs only on a payload whose fields
\* all passed.
RegisterErrors(p, us) ==
    IF FieldErrors(p, us) # {} THEN FieldErrors(p, us) ELSE validate(p)

\* UserManager.normalize_email, which create_user applies to the address it
\* stores: the domain part is lowercased, the local part is kept.
normalize_email(e) == IF e = "test@EXAMPLE.COM" THEN "test@example.com" ELSE e

\* The fields of RegisterSerializer (Meta.fields, serializers.py:35-44):
\* validated_data holds the declared fields only, any other key of the
\* payload is dropped.
MetaFields ==
    {"username", "email", "password", "password2", "first_name", "last_name"}
validated_data_Unfiltered(p) == p
validated_data(p) == [f \in DOMAIN p \cap MetaFields |-> p[f]]

\* RegisterSerializer.create (serializers.py:58-65): create_user.
\* create_user(**validated_data) takes the role flags from its keyword
\* arguments and sets a flag it is not given to False.
create_user(us, p) ==
    LET vd == validated_data(p)
        flag(name) == IF name \in DOMAIN vd THEN vd[name] ELSE FALSE
    IN Append(us, [id |-> Len(us) + 1, username |-> vd.username,
                   email |-> normalize_email(vd.email),
                   password |-> make_password(vd.password),
                   is_superuser |-> flag("is_superuser"),
                   is_staff |-> flag("is_staff"), last_login |-> -1])

\* RegisterView.create (views.py:119-132).
RegisterView(p) ==
    /\ req = NoReq
    /\ req' = [NoReq EXCEPT !.op = "register", !.method = "POST",
                            !.username = p.username, !.email = p.email,
                            !.password = p.password, !.password2 = p.password2,
                            !.extra = DOMAIN p \ MetaFields, !.at = now]
    /\ old' = Snapshot
    /\ IF RegisterErrors(p, users) # {}
       THEN /\ resp' = ValidationError(RegisterErrors(p, users))
            /\ users' = users
       ELSE /\ users' = create_user(users, p)
            /\ resp' = [Response(201, "Usuario registrado com sucesso!")
                          EXCEPT !.user = UserSerializer(users'[Len(users')])]
    /\ UNCHANGED <<eventStore, blacklist, issued, nextJti, now, ticks, used, loggedOut,
                   loggedIn, inflight>>

\* The createsuperuser command, as the create_superuser fixture runs it
\* (tests/test_auth.py:72-81): the only way an account gets the role flags.
CreateSuperuser ==
    /\ req = NoReq
    /\ UserByName(users, "admin") = {}
    /\ users' = Append(users, [id |-> Len(users) + 1, username |-> "admin",
                               email |-> "admin@example.com",
                               password |-> make_password("AdminPass123!"),
                               is_superuser |-> TRUE, is_staff |-> TRUE,
                               last_login |-> -1])
    /\ old' = [Snapshot EXCEPT !.users = users']
    /\ UNCHANGED <<eventStore, blacklist, issued, nextJti, now, ticks, req, resp, used,
                   loggedOut, loggedIn, inflight>>

\* The response is delivered and the worker takes the next request.
Respond ==
    /\ req # NoReq
    /\ req' = NoReq
    /\ resp' = NoResp
    /\ old' = Snapshot
    /\ UNCHANGED <<eventStore, users, blacklist, issued, nextJti, now, ticks, used,
                   loggedOut, loggedIn, inflight>>

\* The clock advances between requests.
Tick(d) ==
    /\ req = NoReq
    /\ ticks < MaxTicks
    /\ ticks' = ticks + 1
    /\ now' = now + d
    /\ UNCHANGED <<eventStore, users, blacklist, issued, nextJti, req, resp, old, used,
                   loggedOut, loggedIn, inflight>>

(***************************************************************************)
(* Token issue.                                                            *)
(***************************************************************************)
PairsIssued == (nextJti - 1) \div 2

\* RefreshToken.for_user(user) and its access_token: two claim sets, each with
\* a fresh jti, with the lifetimes of settings.py:186-187.
RefreshFor(uid, jti, t) == Token("refresh", jti, uid, t + REFRESH_TOKEN_LIFETIME)
AccessFor(uid, jti, t) == Token("access", jti, uid, t + ACCESS_TOKEN_LIFETIME)

(***************************************************************************)
(* The request pipeline of REST_FRAMEWORK (settings.py:168-180).           *)
(***************************************************************************)
\* JWTAuthentication.authenticate (settings.py:169-171, 194-198): no header ->
\* no actor; a bearer that is not a valid access token -> the request fails;
\* otherwise the account of the user_id claim.
Authenticate(bearer, t, us) ==
    IF bearer = NoToken THEN Anonymous
    ELSE IF ~AccessTokenValid(bearer, t) \/ bearer.sub \notin DOMAIN us
      THEN [kind |-> "failed", id |-> 0]
    ELSE [kind |-> "user", id |-> bearer.sub]

\* permission_classes = (IsAuthenticated,)  (views.py:155, views.py:186).
IsAuthenticated_AllowAny(actor) == TRUE
IsAuthenticated(actor) == actor.kind = "user"

SAFE_METHODS == {"GET", "HEAD", "OPTIONS"}

\* IsSuperUserOrReadOnly.has_permission (permissions.py:74-82).
IsSuperUserOrReadOnly(method, actor, us) ==
    \/ method \in SAFE_METHODS
    \/ /\ actor.kind = "user"
       /\ us[actor.id].is_superuser

\* APIView.permission_denied: an unauthenticated request is answered 401
\* (the authenticator sends a WWW-Authenticate header), an authenticated one 403.
PermissionDenied(actor) ==
    IF actor.kind = "user" THEN Response(403, "permission_denied")
    ELSE Response(401, "not_authenticated")

InvalidToken == Response(401, "token_not_valid")

(***************************************************************************)
(* Login: TokenObtainPairView (urls.py:14).                                *)
(***************************************************************************)
\* django.contrib.auth.authenticate: the id of the account, 0 for none.
authenticate(u, pw, us) ==
    IF UserByName(us, u) = {} THEN 0
    ELSE LET i == CHOOSE i \in UserByName(us, u) : TRUE
         IN IF check_password(pw, us[i].password) THEN i ELSE 0

\* The AuthenticationFailed of TokenObtainSerializer.validate: one answer,
\* whatever made authenticate return nothing.
AuthenticationFailed_Leaky(u, us) ==
    IF UserByName(us, u) = {} THEN Response(404, "user_not_found")
    ELSE Response(401, "no_active_account")
AuthenticationFailed(u, us) == Response(401, "no_active_account")

TokenObtainPairView(u, pw) ==
    LET errs == {<<"username", c>> : c \in CharFieldErrors(u)}
                \cup {<<"password", c>> : c \in CharFieldErrors(pw)}
        who == authenticate(u, pw, users)
        r == RefreshFor(who, nextJti, now)
        a == AccessFor(who, nextJti + 1, now)
    IN
    /\ req = NoReq
    /\ req' = [NoReq EXCEPT !.op = "login", !.method = "POST",
                            !.username = u, !.password = pw, !.at = now]
    /\ old' = Snapshot
    /\ IF errs # {}
       THEN /\ resp' = ValidationError(errs)
            /\ UNCHANGED <<users, issued, nextJti, loggedIn>>
       ELSE IF who = 0
       THEN /\ resp' = AuthenticationFailed(u, users)
            /\ UNCHANGED <<users, issued, nextJti, loggedIn>>
       ELSE /\ PairsIssued < MaxPairs
            /\ issued' = issued \cup {r, a}
            /\ nextJti' = nextJti + 2
            \* "UPDATE_LAST_LOGIN": True (settings.py:190)
            /\ users' = [users EXCEPT ![who].last_login = now]
            /\ loggedIn' = loggedIn \cup {who}
            /\ resp' = [Response(200, "") EXCEPT !.access = a, !.refresh = r]
    /\ UNCHANGED <<eventStore, blacklist, now, ticks, used, loggedOut, inflight>>

(***************************************************************************)
(* Refresh: TokenRefreshView (urls.py:16), one request handled at once.    *)
(***************************************************************************)
TokenRefreshView(tok) ==
    LET a == AccessFor(tok.sub, nextJti, now)
        r == RefreshFor(tok.sub, nextJti + 1, now)
    IN
    /\ req = NoReq
    /\ req' = [NoReq EXCEPT !.op = "refresh", !.method = "POST",
                            !.body = tok, !.at = now]
    /\ old' = Snapshot
    /\ IF tok = NoToken
       THEN /\ resp' = ValidationError({<<"refresh", "required">>})
            /\ UNCHANGED <<blacklist, issued, nextJti, used>>
       ELSE IF ~RefreshTokenValid(tok, blacklist, now)
       THEN /\ resp' = InvalidToken
            /\ UNCHANGED <<blacklist, issued, nextJti, used>>
       ELSE /\ PairsIssued < MaxPairs
            /\ used' = used \cup {tok.jti}
            /\ nextJti' = nextJti + 2
            /\ IF ROTATE_REFRESH_TOKENS
               THEN /\ blacklist' = IF BLACKLIST_AFTER_ROTATION
                                    THEN TokenBlacklist(tok, blacklist)
                                    ELSE blacklist
                    /\ issued' = issued \cup {a, r}
                    /\ resp' = [Response(200, "") EXCEPT !.access = a, !.refresh = r]
               ELSE /\ blacklist' = blacklist
                    /\ issued' = issued \cup {a}
                    /\ resp' = [Response(200, "") EXCEPT !.access = a]
    /\ UNCHANGED <<eventStore, users, now, ticks, loggedOut, loggedIn, inflight>>

(***************************************************************************)
(* Logout: LogoutView.post (views.py:186-202).                             *)
(***************************************************************************)
\* What the try block raises: KeyError for a body without "refresh", the
\* TokenError of RefreshToken(refresh_token) otherwise.
LogoutCause(tok, bl, t) ==
    CASE tok = NoToken -> "KeyError"
      [] tok = Malformed -> "Token is invalid"
      [] tok.jti \in bl -> "Token is blacklisted"
      [] ~NotExpired(tok, t) -> "Token is expired"
      [] OTHER -> "Token has wrong type"

\* except Exception (views.py:198-202): one answer for every cause.
LogoutError_Leaky(cause) == Response(400, cause)
LogoutError(cause) == Response(400, "Token invalido ou ja utilizado.")

LogoutView(bearer, tok) ==
    LET actor == Authenticate(bearer, now, users) IN
    /\ req = NoReq
    /\ req' = [NoReq EXCEPT !.op = "logout", !.method = "POST",
                            !.bearer = bearer, !.body = tok, !.at = now]
    /\ old' = Snapshot
    /\ IF actor.kind = "failed"
       THEN /\ resp' = InvalidToken
            /\ UNCHANGED <<blacklist, loggedOut>>
       ELSE IF ~IsAuthenticated(actor)
       THEN /\ resp' = PermissionDenied(actor)
            /\ UNCHANGED <<blacklist, loggedOut>>
       ELSE IF ~RefreshTokenValid(tok, blacklist, now)
       THEN /\ resp' = LogoutError(LogoutCause(tok, blacklist, now))
            /\ UNCHANGED <<blacklist, loggedOut>>
       ELSE /\ blacklist' = TokenBlacklist(tok, blacklist)
            /\ loggedOut' = loggedOut \cup {tok.jti}
            /\ resp' = Response(205, "Logout realizado com sucesso.")
    /\ UNCHANGED <<eventStore, users, issued, nextJti, now, ticks, used, loggedIn, inflight>>

(***************************************************************************)
(* CurrentUser: UserDetailView.get (views.py:155-160).                     *)
(***************************************************************************)
UserDetailView(bearer) ==
    LET actor == Authenticate(bearer, now, users) IN
    /\ req = NoReq
    /\ req' = [NoReq EXCEPT !.op = "user", !.method = "GET",
                            !.bearer = bearer, !.at = now]
    /\ old' = Snapshot
    /\ resp' = IF actor.kind = "failed" THEN InvalidToken
               ELSE IF ~IsAuthenticated(actor) THEN PermissionDenied(actor)
               ELSE [Response(200, "") EXCEPT !.user = UserSerializer(users[actor.id])]
    /\ UNCHANGED <<eventStore, users, blacklist, issued, nextJti, now, ticks, used,
                   loggedOut, loggedIn, inflight>>

(***************************************************************************)
(* IsOwnerOrSuperUser.has_object_permission (permissions.py:85-109).       *)
(***************************************************************************)
\* getattr(obj, name, None).
getattr(obj, name) == IF name \in obj.attrs THEN obj[name] ELSE 0

\* Python's `a or b`: a when a is truthy, else b.  An account is truthy, None
\* is not.
PyOr_Second(a, b) == b
PyOr(a, b) == IF a # 0 THEN a ELSE b

\* owner == request.user: Model.__eq__ compares the primary keys of two
\* accounts; None and AnonymousUser equal no account and not each other.
SameUser(owner, actor) == owner # 0 /\ actor.kind = "user" /\ owner = actor.id

IsOwnerOrSuperUser(actor, obj, us) ==
    IF actor.kind = "user" /\ us[actor.id].is_superuser THEN TRUE
    ELSE SameUser(PyOr(getattr(obj, "user"),
                       PyOr(getattr(obj, "owner"), getattr(obj, "author"))),
                  actor)

\* A view that checks the permission on obj for the actor of the request.
CheckObjectPermission(actor, obj) ==
    /\ req = NoReq
    /\ req' = [NoReq EXCEPT !.op = "object", !.actor = actor, !.obj = obj,
                            !.at = now]
    /\ old' = Snapshot
    /\ resp' = IF IsOwnerOrSuperUser(actor, obj, users)
               THEN Response(200, "granted")
               ELSE PermissionDenied(actor)
    /\ UNCHANGED <<eventStore, users, blacklist, issued, nextJti, now, ticks,
                   used, loggedOut, loggedIn, inflight>>

(***************************************************************************)
(* Events: EventoCreateUpdateSerializer (events/serializers.py:209-361),   *)
(* the image helpers (media_files/utils.py) and EventoViewSet              *)
(* (events/viewsets.py:103-284).  Instants are minutes, like the clock.    *)
(* Of the fields of an Evento the rows keep the title, the two dates, the  *)
(* status, the creation time and the image; the other required fields      *)
(* (categoria_id, tipo_evento) are taken as supplied and valid, and no     *)
(* body modelled here carries a status, so a created event is a draft.     *)
(***************************************************************************)
MinutesPerDay == 24 * 60
MaxDuracaoDias == 365

\* timedelta.days: the whole days of a difference, rounded down.
days_TowardZero(delta) ==
    IF delta >= 0 THEN delta \div MinutesPerDay ELSE -((-delta) \div MinutesPerDay)
days(delta) == delta \div MinutesPerDay

\* The instant a supplied date field carries.
Val(field) == CHOOSE t \in field : TRUE

\* validate_data_inicio (serializers.py:261-265); instance is the set holding
\* the row being updated, empty on creation.
validate_data_inicio_Always(value, instance, t) ==
    IF value < t THEN {"Data de inicio nao pode ser no passado."} ELSE {}
validate_data_inicio(value, instance, t) ==
    IF instance = {} /\ value < t
    THEN {"Data de inicio nao pode ser no passado."}
    ELSE {}

\* Serializer.to_internal_value for the modelled fields: titulo and
\* data_inicio are required unless the update is partial; data_fim is not
\* (null=True, blank=True on the model).
EventoFieldErrors(d, instance, partial, t) ==
    {<<"titulo", c>> :
        c \in IF d.titulo = Missing /\ ~partial THEN {"required"} ELSE {}}
    \cup {<<"data_inicio", c>> :
        c \in IF d.data_inicio = {}
              THEN (IF partial THEN {} ELSE {"required"})
              ELSE validate_data_inicio(Val(d.data_inicio), instance, t)}

\* EventoCreateUpdateSerializer.validate (serializers.py:267-286): attrs holds
\* the fields of the request body only, never those of the stored row.
EventoValidate_NoOrder(attrs) ==
    IF /\ attrs.data_fim # {} /\ attrs.data_inicio # {}
       /\ days(Val(attrs.data_fim) - Val(attrs.data_inicio)) > MaxDuracaoDias
    THEN {<<"data_fim", "Evento nao pode durar mais de 1 ano.">>}
    ELSE {}
EventoValidate(attrs) ==
    IF /\ attrs.data_fim # {} /\ attrs.data_inicio # {}
       /\ Val(attrs.data_fim) < Val(attrs.data_inicio)
    THEN {<<"data_fim", "Data de termino deve ser posterior a data de inicio.">>}
    ELSE IF /\ attrs.data_fim # {} /\ attrs.data_inicio # {}
            /\ days(Val(attrs.data_fim) - Val(attrs.data_inicio)) > MaxDuracaoDias
    THEN {<<"data_fim", "Evento nao pode durar mais de 1 ano.">>}
    ELSE {}

\* Serializer.run_validation: field errors first, validate() only without any.
EventoErrors(d, instance, partial, t) ==
    IF EventoFieldErrors(d, instance, partial, t) # {}
    THEN EventoFieldErrors(d, instance, partial, t)
    ELSE EventoValidate(d)

\* CLOUDINARY_UPLOAD_PRESET (settings.py:253-256).
max_file_size == 5 * 1024 * 1024
allowed_formats == {"jpg", "jpeg", "png", "webp", "gif"}

\* validate_image (media_files/utils.py:8-62): the message it raises, <<>> when
\* the file passes.  Messages are sequences of fragments, \o concatenates.
validate_image(file) ==
    IF file.size > max_file_size
    THEN <<"Arquivo muito grande. Tamanho maximo: 5.0MB">>
    ELSE IF file.ext \notin allowed_formats
    THEN <<"Extensao nao permitida.">>
    ELSE <<>>

UploadFailed == "Erro ao fazer upload da imagem: "

\* What the hosting service does during a request: "ok", the error that
\* cloudinary.uploader.upload raises, or DestroyFails when the upload works
\* and cloudinary.uploader.destroy raises.
DestroyFails == "destroy: upstream timeout"

\* upload_image_to_cloudinary (media_files/utils.py:65-101).
upload_image_to_cloudinary(file, upstream) ==
    IF validate_image(file) # <<>>
    THEN [ok |-> FALSE, error |-> validate_image(file)]
    ELSE IF upstream \notin {"ok", DestroyFails}
    THEN [ok |-> FALSE, error |-> <<UploadFailed, upstream>>]
    ELSE [ok |-> TRUE, error |-> <<>>]

\* delete_image_from_cloudinary (media_files/utils.py:104-119): an error of
\* the service is printed and returned as a result, it is not raised.
delete_image_from_cloudinary(image, h, upstream) ==
    IF upstream = DestroyFails THEN h ELSE h \ {image}

\* What a handler leaves behind: the response and the stores.
Outcome(r, ev, h, ne, ni) ==
    [resp |-> r, events |-> ev, hosted |-> h, nextEvento |-> ne, nextImage |-> ni]
Untouched(r) == Outcome(r, events, hosted, nextEvento, nextImage)

\* EventoCreateUpdateSerializer.create (serializers.py:288-316).  The row is
\* written first; save is what evento.save(update_fields=...) does after the
\* upload: "ok" or the error it raises.  On any exception the row is deleted.
EventoCreate_NoCompensation(d, upstream, save) ==
    LET evento == [id |-> nextEvento, titulo |-> d.titulo,
                   data_inicio |-> d.data_inicio, data_fim |-> d.data_fim,
                   status |-> "rascunho", created_at |-> now,
                   imagem_destaque |-> 0]
        up == upload_image_to_cloudinary(d.imagem, upstream)
    IN IF d.imagem = NoFile \/ ~up.ok \/ save # "ok"
       THEN Outcome(IF d.imagem = NoFile THEN Response(201, "created")
                    ELSE ValidationError({<<"imagem", <<UploadFailed>> \o up.error>>}),
                    events \cup {evento},
                    IF up.ok THEN hosted \cup {nextImage} ELSE hosted,
                    nextEvento + 1, IF up.ok THEN nextImage + 1 ELSE nextImage)
       ELSE Outcome(Response(201, "created"),
                    events \cup {[evento EXCEPT !.imagem_destaque = nextImage]},
                    hosted \cup {nextImage}, nextEvento + 1, nextImage + 1)
EventoCreate(d, upstream, save) ==
    LET evento == [id |-> nextEvento, titulo |-> d.titulo,
                   data_inicio |-> d.data_inicio, data_fim |-> d.data_fim,
                   status |-> "rascunho", created_at |-> now,
                   imagem_destaque |-> 0]
        up == upload_image_to_cloudinary(d.imagem, upstream)
    IN IF d.imagem = NoFile
       THEN Outcome(Response(201, "created"), events \cup {evento}, hosted,
                    nextEvento + 1, nextImage)
       ELSE IF ~up.ok
       THEN Outcome(ValidationError({<<"imagem", <<UploadFailed>> \o up.error>>}),
                    events, hosted, nextEvento + 1, nextImage)
       ELSE IF save # "ok"
       THEN Outcome(ValidationError({<<"imagem", <<UploadFailed, save>>>>}),
                    events, hosted \cup {nextImage}, nextEvento + 1, nextImage + 1)
       ELSE Outcome(Response(201, "created"),
                    events \cup {[evento EXCEPT !.imagem_destaque = nextImage]},
                    hosted \cup {nextImage}, nextEvento + 1, nextImage + 1)

\* EventoCreateUpdateSerializer.update (serializers.py:318-357): the supplied
\* fields are written to the row before the upload; the old image is removed
\* from the hosting service once the new one is stored, and whatever goes
\* wrong in removing it is passed over (serializers.py:342-350).
EventoUpdate(instance, d, upstream, save) ==
    LET evento == [instance EXCEPT
                     !.titulo = IF d.titulo = Missing THEN @ ELSE d.titulo,
                     !.data_inicio = IF d.data_inicio = {} THEN @ ELSE d.data_inicio,
                     !.data_fim = IF d.data_fim = {} THEN @ ELSE d.data_fim]
        others == events \ {instance}
        up == upload_image_to_cloudinary(d.imagem, upstream)
    IN IF d.imagem = NoFile
       THEN Outcome(Response(200, "updated"), others \cup {evento}, hosted,
                    nextEvento, nextImage)
       ELSE IF ~up.ok
       THEN Outcome(ValidationError({<<"imagem", <<UploadFailed>> \o up.error>>}),
                    others \cup {evento}, hosted, nextEvento, nextImage)
       ELSE IF save # "ok"
       THEN Outcome(ValidationError({<<"imagem", <<UploadFailed, save>>>>}),
                    others \cup {evento}, hosted \cup {nextImage},
                    nextEvento, nextImage + 1)
       ELSE Outcome(Response(200, "updated"),
                    others \cup {[evento EXCEPT !.imagem_destaque = nextImage]},
                    IF instance.imagem_destaque = 0 THEN hosted \cup {nextImage}
                    ELSE delete_image_from_cloudinary(instance.imagem_destaque,
                                                      hosted \cup {nextImage},
                                                      upstream),
                    nextEvento, nextImage + 1)

(***************************************************************************)
(* The reads of EventoViewSet: the list route with its ordering and        *)
(* pagination, the detail route and the extra actions.  The filters of     *)
(* EventoFilter and the text search are left out: no request modelled      *)
(* here carries their parameters.                                          *)
(***************************************************************************)
Min(a, b) == IF a < b THEN a ELSE b
Max(a, b) == IF a > b THEN a ELSE b
Ceil(a, b) == (a + b - 1) \div b
Take(s, n) == SubSeq(s, 1, Min(n, Len(s)))
Ids(rows) == {e.id : e \in rows}

\* A new row is stored after the rows already there; a deleted row is gone.
HeapAfter(h, rows) ==
    LET kept == SelectSeq(h, LAMBDA i : i \in Ids(rows))
        new == Ids(rows) \ {h[i] : i \in DOMAIN h}
    IN IF new = {} THEN kept ELSE Append(kept, CHOOSE i \in new : TRUE)
Pos(h, id) == CHOOSE i \in DOMAIN h : h[i] = id

\* OrderingFilter.get_ordering with ordering_fields and ordering of the view
\* (events/viewsets.py:134-135): a term naming no ordering field is dropped
\* and the default ordering is used.
OrderingTerm(o) ==
    CASE o = "data_inicio" -> [field |-> "data_inicio", desc |-> FALSE]
      [] o = "created_at" -> [field |-> "created_at", desc |-> FALSE]
      [] o = "-created_at" -> [field |-> "created_at", desc |-> TRUE]
      [] o = "titulo" -> [field |-> "titulo", desc |-> FALSE]
      [] o = "-titulo" -> [field |-> "titulo", desc |-> TRUE]
      [] OTHER -> [field |-> "data_inicio", desc |-> TRUE]

\* The collation of the titles the stores hold.
Collate(titulo) ==
    CASE titulo = "Evento A" -> 1
      [] titulo = "Evento B" -> 2
      [] titulo = "Novo Evento" -> 3
      [] OTHER -> 0
SortKey(e, field) ==
    CASE field = "data_inicio" -> Val(e.data_inicio)
      [] field = "created_at" -> e.created_at
      [] field = "titulo" -> Collate(e.titulo)

\* ORDER BY one column: rows with different keys come in key order, rows with
\* the same key in whatever order storage yields them (there is no second
\* sort column: events/models.py:168, events/viewsets.py:135).
Before(a, b, term, h) ==
    LET ka == SortKey(a, term.field)
        kb == SortKey(b, term.field)
    IN IF ka # kb THEN (IF term.desc THEN ka > kb ELSE ka < kb)
       ELSE Pos(h, a.id) < Pos(h, b.id)
RECURSIVE order_by(_, _, _)
order_by(rows, term, h) ==
    IF rows = {} THEN <<>>
    ELSE LET first == CHOOSE a \in rows :
                         \A b \in rows \ {a} : Before(a, b, term, h)
         IN <<first>> \o order_by(rows \ {first}, term, h)

\* EventoViewSet.get_queryset (events/viewsets.py:160-182): any non-empty
\* value of the parameter switches the filter on.
get_queryset(q, t) ==
    {e \in events : /\ q.proximos # "" => Val(e.data_inicio) >= t
                    /\ q.passados # "" => Val(e.data_inicio) < t}

\* The SerializerMethodFields (events/serializers.py:166-201).
get_dias_ate_evento(obj, t) == days(Val(obj.data_inicio) - t)
get_duracao_dias(obj) ==
    IF obj.data_fim = {} THEN 1
    ELSE Max(1, days(Val(obj.data_fim) - Val(obj.data_inicio)) + 1)
get_ja_aconteceu(obj, t) ==
    t > (IF obj.data_fim # {} THEN Val(obj.data_fim) ELSE Val(obj.data_inicio))

EventoListSerializer(obj, t) ==
    [id |-> obj.id, titulo |-> obj.titulo, data_inicio |-> obj.data_inicio,
     data_fim |-> obj.data_fim, status |-> obj.status,
     imagem_destaque |-> obj.imagem_destaque,
     dias_ate_evento |-> get_dias_ate_evento(obj, t)]
EventoDetailSerializer(obj, t) ==
    [id |-> obj.id, titulo |-> obj.titulo, data_inicio |-> obj.data_inicio,
     data_fim |-> obj.data_fim, status |-> obj.status,
     imagem_destaque |-> obj.imagem_destaque, created_at |-> obj.created_at,
     dias_ate_evento |-> get_dias_ate_evento(obj, t),
     duracao_dias |-> get_duracao_dias(obj),
     ja_aconteceu |-> get_ja_aconteceu(obj, t)]

\* EventoPagination (events/pagination.py:22-31).
page_size == 10
max_page_size == 100

\* PageNumberPagination.get_page_size: a page_size that is not a positive
\* integer falls back to the default, one above the maximum is cut to it.
get_page_size(q) ==
    IF q.page_size = {} \/ Val(q.page_size) <= 0 THEN page_size
    ELSE Min(Val(q.page_size), max_page_size)

\* Paginator.num_pages with allow_empty_first_page: ceil(max(1, count) / per).
num_pages_Down(count, per) == Max(1, count) \div per
num_pages(count, per) == Ceil(Max(1, count), per)

\* Paginator.page: the rows of page number, the last page may be short.
Page(rows, number, per) ==
    SubSeq(rows, (number - 1) * per + 1, Min(number * per, Len(rows)))

\* list (ListModelMixin.list with EventoPagination.get_paginated_response,
\* events/pagination.py:33-66): a page outside 1..num_pages is a 404.
EventoList(q, t, h) ==
    LET rows == order_by(get_queryset(q, t), OrderingTerm(q.ordering), h)
        per == get_page_size(q)
        number == IF q.page = {} THEN 1 ELSE Val(q.page)
        total == num_pages(Len(rows), per)
        page == Page(rows, number, per)
    IN IF number < 1 \/ number > total THEN Response(404, "not_found")
       ELSE [Response(200, "list") EXCEPT
               !.count = Len(rows), !.total_pages = total,
               !.current_page = number, !.page_size = per,
               !.results = [i \in DOMAIN page |-> EventoListSerializer(page[i], t)]]

\* The default limit of proximos and passados and the limit of destaques
\* (events/viewsets.py:198, 216, 239).
DefaultLimit == 10
DestaquesLimit == 3

\* proximos (events/viewsets.py:185-207): the published events that start
\* now or later, soonest first, cut to limit.  Slicing a queryset with a
\* negative bound raises, which the client sees as a server error.
proximos(q, t, h) ==
    LET limit == IF q.limit = {} THEN DefaultLimit ELSE Val(q.limit)
        rows == order_by({e \in get_queryset(q, t) :
                             Val(e.data_inicio) >= t /\ e.status = "publicado"},
                         [field |-> "data_inicio", desc |-> FALSE], h)
        cut == Take(rows, limit)
    IN IF limit < 0 THEN Response(500, "server_error")
       ELSE [Response(200, "proximos") EXCEPT
               !.results = [i \in DOMAIN cut |-> EventoDetailSerializer(cut[i], t)]]

\* passados (events/viewsets.py:209-225): the events that started before now,
\* whatever their status, latest first, cut to limit.
passados(q, t, h) ==
    LET limit == IF q.limit = {} THEN DefaultLimit ELSE Val(q.limit)
        rows == order_by({e \in get_queryset(q, t) : Val(e.data_inicio) < t},
                         [field |-> "data_inicio", desc |-> TRUE], h)
        cut == Take(rows, limit)
    IN IF limit < 0 THEN Response(500, "server_error")
       ELSE [Response(200, "passados") EXCEPT
               !.results = [i \in DOMAIN cut |-> EventoDetailSerializer(cut[i], t)]]

\* destaques (events/viewsets.py:227-245): the same rows, cut to three.
destaques_Unpublished(q, t, h) ==
    LET rows == order_by({e \in get_queryset(q, t) : Val(e.data_inicio) >= t},
                         [field |-> "data_inicio", desc |-> FALSE], h)
        cut == Take(rows, DestaquesLimit)
    IN [Response(200, "destaques") EXCEPT
          !.results = [i \in DOMAIN cut |-> EventoDetailSerializer(cut[i], t)]]
destaques(q, t, h) ==
    LET rows == order_by({e \in get_queryset(q, t) :
                             Val(e.data_inicio) >= t /\ e.status = "publicado"},
                         [field |-> "data_inicio", desc |-> FALSE], h)
        cut == Take(rows, DestaquesLimit)
    IN [Response(200, "destaques") EXCEPT
          !.results = [i \in DOMAIN cut |-> EventoDetailSerializer(cut[i], t)]]

\* retrieve (RetrieveModelMixin.retrieve with EventoDetailSerializer).
retrieve(pk, q, t) ==
    LET found == {e \in get_queryset(q, t) : e.id = pk}
    IN IF found = {} THEN Response(404, "not_found")
       ELSE [Response(200, "retrieve") EXCEPT
               !.results = <<EventoDetailSerializer(CHOOSE e \in found : TRUE, t)>>]

\* The GET handlers of the router and of the extra actions.
EventoRead(route, pk, q, t, h) ==
    CASE route = "list" -> EventoList(q, t, h)
      [] route = "retrieve" -> retrieve(pk, q, t)
      [] route = "proximos" -> proximos(q, t, h)
      [] route = "passados" -> passados(q, t, h)
      [] route = "destaques" -> destaques(q, t, h)

\* The routes of the router (events/urls.py): pk = 0 is the list route
\* (list, create), any other pk a detail route (retrieve, update,
\* partial_update, destroy).  HEAD is served by the GET handler.
EventoHandler(method, pk, d, upstream, save, t) ==
    LET found == {e \in events : e.id = pk} IN
    IF method = "OPTIONS" THEN Untouched(Response(200, "metadata"))
    ELSE IF pk = 0 THEN
        IF method \in {"GET", "HEAD"}
          THEN Untouched(EventoRead("list", 0, NoQuery, t, heap))
        ELSE IF method # "POST" THEN Untouched(Response(405, "method_not_allowed"))
        ELSE IF EventoErrors(d, {}, FALSE, t) # {}
          THEN Untouched(ValidationError(EventoErrors(d, {}, FALSE, t)))
        ELSE EventoCreate(d, upstream, save)
    ELSE IF method = "POST" THEN Untouched(Response(405, "method_not_allowed"))
    ELSE IF found = {} THEN Untouched(Response(404, "not_found"))
    ELSE IF method \in {"GET", "HEAD"}
      THEN Untouched(EventoRead("retrieve", pk, NoQuery, t, heap))
    ELSE IF method = "DELETE"
      THEN Outcome(Response(204, ""), events \ found, hosted, nextEvento, nextImage)
    ELSE IF EventoErrors(d, found, method = "PATCH", t) # {}
      THEN Untouched(ValidationError(EventoErrors(d, found, method = "PATCH", t)))
    ELSE EventoUpdate(CHOOSE e \in found : TRUE, d, upstream, save)

\* APIView.dispatch for EventoViewSet: the request is authenticated, then
\* permission_classes = [IsSuperUserOrReadOnly] (events/viewsets.py:132)
\* decides, then the handler runs.
EventoViewSet(method, bearer, pk, d, upstream, save) ==
    LET actor == Authenticate(bearer, now, users)
        out == IF actor.kind = "failed" THEN Untouched(InvalidToken)
               ELSE IF ~IsSuperUserOrReadOnly(method, actor, users)
                 THEN Untouched(PermissionDenied(actor))
               ELSE EventoHandler(method, pk, d, upstream, save, now)
    IN
    /\ req = NoReq
    /\ out.nextEvento <= MaxEventos + 1
    /\ out.nextImage <= MaxImages + 1
    /\ req' = [NoReq EXCEPT !.op = "events", !.method = method,
                            !.bearer = bearer, !.at = now, !.pk = pk,
                            !.data = d, !.upload = upstream, !.save = save]
    /\ old' = Snapshot
    /\ resp' = out.resp
    /\ events' = out.events
    /\ hosted' = out.hosted
    /\ nextEvento' = out.nextEvento
    /\ nextImage' = out.nextImage
    /\ heap' = HeapAfter(heap, out.events)
    /\ lastList' = IF out.resp.detail = "list" THEN ListAnswer(NoQuery, out.resp)
                   ELSE IF out.events # events THEN NoList
                   ELSE lastList
    /\ UNCHANGED <<users, blacklist, issued, nextJti, now, ticks, used,
                   loggedOut, loggedIn, inflight>>

\* A GET or HEAD on any read route, with its query string.
EventoGet(method, bearer, route, pk, q) ==
    LET actor == Authenticate(bearer, now, users)
        out == IF actor.kind = "failed" THEN InvalidToken
               ELSE IF ~IsSuperUserOrReadOnly(method, actor, users)
                 THEN PermissionDenied(actor)
               ELSE EventoRead(route, pk, q, now, heap)
    IN
    /\ req = NoReq
    /\ method \in {"GET", "HEAD"}
    /\ req' = [NoReq EXCEPT !.op = "events", !.method = method,
                            !.bearer = bearer, !.at = now, !.pk = pk,
                            !.route = route, !.query = q]
    /\ old' = Snapshot
    /\ resp' = out
    /\ lastList' = IF out.detail = "list" THEN ListAnswer(q, out) ELSE lastList
    /\ UNCHANGED <<users, blacklist, issued, nextJti, now, ticks, used,
                   loggedOut, loggedIn, inflight, events, hosted, nextEvento,
                   nextImage, heap>>

(***************************************************************************)
(* The specification of the authentication lifecycle: every request is     *)
(* handled to completion before the next one.                              *)
(***************************************************************************)
Payload(u, e, p, p2) == [username |-> u, email |-> e, password |-> p, password2 |-> p2]

AuthPayloads ==
    {Payload("testuser", "test@example.com", "TestPass123!", "TestPass123!"),
     Payload("testuser", "test@example.com", "TestPass123!", "TestPass123!")
        @@ [is_superuser |-> TRUE, is_staff |-> TRUE],
     Payload("testuser", "test@example.com", "TestPass123!", "DifferentPass123!")}
LoginNames == {Missing, "", "testuser", "admin"}
LoginPasswords == {Missing, "", "TestPass123!", "WrongPassword123!", "AdminPass123!"}
Presentable == issued \cup {NoToken, Malformed}
EventMethods == {"GET", "POST", "DELETE"}
TickSteps == {ACCESS_TOKEN_LIFETIME, REFRESH_TOKEN_LIFETIME}

Next ==
    \/ \E p \in AuthPayloads : RegisterView(p)
    \/ CreateSuperuser
    \/ \E u \in LoginNames, pw \in LoginPasswords : TokenObtainPairView(u, pw)
    \/ \E tok \in Presentable : TokenRefreshView(tok)
    \/ \E b \in Presentable, tok \in Presentable : LogoutView(b, tok)
    \/ \E b \in Presentable : UserDetailView(b)
    \/ \E m \in EventMethods, b \in Presentable :
          EventoViewSet(m, b, 0, NoData, "ok", "ok")
    \/ Respond
    \/ \E d \in TickSteps : Tick(d)

Spec == Init /\ [][Next]_vars

(***************************************************************************)
(* The specification of registration alone, over every combination of the  *)
(* payload values below.                                                   *)
(***************************************************************************)
RegUsernames == {Missing, "", "testuser", "different_user"}
RegEmails ==
    {Missing, "not-an-email", "test@example.com", "test@EXAMPLE.COM",
     "other@example.com"}
RegPasswords == {Missing, "123", "TestPass123!"}
RegPasswords2 == {Missing, "123", "TestPass123!", "DifferentPass123!"}
RegisterPayloads ==
    {Payload(u, e, p, p2) : u \in RegUsernames, e \in RegEmails,
                            p \in RegPasswords, p2 \in RegPasswords2}

NextRegister ==
    \/ \E p \in RegisterPayloads : RegisterView(p)
    \/ CreateSuperuser
    \/ Respond

SpecRegister == Init /\ [][NextRegister]_vars

(***************************************************************************)
(* Overlapping Refresh requests.  The project runs no request in a         *)
(* transaction (DATABASES sets no ATOMIC_REQUESTS, settings.py:100-124),   *)
(* so the statements of TokenRefreshSerializer.validate of two requests    *)
(* interleave at the database: the blacklist lookup of RefreshToken(raw),  *)
(* the get_or_create of refresh.blacklist(), and the answer.               *)
(***************************************************************************)
\* RefreshToken(attrs["refresh"]): decode, check_blacklist, verify.
RefreshVerify(c, tok) ==
    /\ inflight[c].pc = "idle"
    /\ tok # NoToken
    /\ inflight' = [inflight EXCEPT ![c] =
          IF RefreshTokenValid(tok, blacklist, now)
          THEN [Idle EXCEPT !.pc = "verified", !.token = tok]
          ELSE [Idle EXCEPT !.pc = "done", !.token = tok, !.status = 401]]
    /\ UNCHANGED <<eventStore, users, blacklist, issued, nextJti, now, ticks, req, resp,
                   old, used, loggedOut, loggedIn>>

\* refresh.blacklist(): get_or_create does not fail on a jti that another
\* request has blacklisted in the meantime.
RefreshBlacklist(c) ==
    /\ inflight[c].pc = "verified"
    /\ blacklist' = IF ROTATE_REFRESH_TOKENS /\ BLACKLIST_AFTER_ROTATION
                    THEN TokenBlacklist(inflight[c].token, blacklist)
                    ELSE blacklist
    /\ inflight' = [inflight EXCEPT ![c].pc = "blacklisted"]
    /\ UNCHANGED <<eventStore, users, issued, nextJti, now, ticks, req, resp, old, used,
                   loggedOut, loggedIn>>

\* set_jti, set_exp, set_iat and the 200 response with the new pair.
RefreshIssue(c) ==
    LET tok == inflight[c].token
        a == AccessFor(tok.sub, nextJti, now)
        r == RefreshFor(tok.sub, nextJti + 1, now)
    IN
    /\ inflight[c].pc = "blacklisted"
    /\ PairsIssued < MaxConcurrentPairs
    /\ issued' = issued \cup {a, r}
    /\ nextJti' = nextJti + 2
    /\ used' = used \cup {tok.jti}
    /\ inflight' = [inflight EXCEPT ![c].pc = "done", ![c].status = 200,
                                    ![c].refresh = r]
    /\ UNCHANGED <<eventStore, users, blacklist, now, ticks, req, resp, old, loggedOut,
                   loggedIn>>

\* The response is delivered; the client may send another request.
RefreshReturn(c) ==
    /\ inflight[c].pc = "done"
    /\ inflight' = [inflight EXCEPT ![c] = Idle]
    /\ UNCHANGED <<eventStore, users, blacklist, issued, nextJti, now, ticks, req, resp,
                   old, used, loggedOut, loggedIn>>

NextConcurrent ==
    \/ \E p \in AuthPayloads : RegisterView(p)
    \/ \E u \in {"testuser"}, pw \in {"TestPass123!", "WrongPassword123!"} :
          TokenObtainPairView(u, pw)
    \/ Respond
    \/ \E c \in Clients, tok \in issued \cup {Malformed} : RefreshVerify(c, tok)
    \/ \E c \in Clients : RefreshBlacklist(c)
    \/ \E c \in Clients : RefreshIssue(c)
    \/ \E c \in Clients : RefreshReturn(c)

SpecConcurrent == Init /\ [][NextConcurrent]_vars

(***************************************************************************)
(* Properties.  req, resp and old describe the request the last step       *)
(* handled: what was sent, what was answered, and the stores before it.    *)
(***************************************************************************)
NoTokens(r) == r.access = NoToken /\ r.refresh = NoToken
StoresUnchanged ==
    /\ users = old.users
    /\ blacklist = old.blacklist
    /\ issued = old.issued

\* C1: a refresh token the server issued is accepted by Refresh at most once.
\* A Refresh with a token that an earlier Refresh accepted is answered 401 and
\* issues nothing; a Refresh with a token that was never accepted, is not
\* logged out and has not expired is answered 200 with a new access+refresh
\* pair for the same account, and the token is blacklisted.
C1_RefreshSingleUse ==
    (req.op = "refresh" /\ req.body \in old.issued /\ req.body.type = "refresh") =>
        /\ req.body.jti \in old.used =>
              /\ resp.status = 401
              /\ NoTokens(resp)
              /\ StoresUnchanged
        /\ (/\ req.body.jti \notin old.used
            /\ req.body.jti \notin old.loggedOut
            /\ req.at < req.body.exp) =>
              /\ resp.status = 200
              /\ resp.access.type = "access"
              /\ resp.refresh.type = "refresh"
              /\ resp.access.sub = req.body.sub
              /\ resp.refresh.sub = req.body.sub
              /\ {resp.access, resp.refresh} \cap old.issued = {}
              /\ resp.refresh.jti # req.body.jti
              /\ req.body.jti \in blacklist

\* A second Refresh with a token that a first Refresh accepted was rejected.
C1_Witness ==
    /\ req.op = "refresh"
    /\ req.body.jti \in old.used
    /\ req.at < req.body.exp
    /\ resp.status = 401

\* C3: once a Logout was answered 205 for refresh token R, every later
\* Refresh(R) is answered 401 and issues nothing, whatever happened in between.
C3_RefreshAfterLogoutFails ==
    (req.op = "refresh" /\ req.body.jti \in old.loggedOut) =>
        /\ resp.status = 401
        /\ NoTokens(resp)
        /\ StoresUnchanged

\* A Refresh with a logged-out, unexpired refresh token was rejected.
C3_Witness ==
    /\ req.op = "refresh"
    /\ req.body.type = "refresh"
    /\ req.body.jti \in old.loggedOut
    /\ req.at < req.body.exp
    /\ resp.status = 401

\* C4: token types are not interchangeable.  An access token sent to Refresh
\* is answered 401; an access token sent as the Logout body is never accepted
\* (no 205, blacklist unchanged); a refresh token sent as the Bearer credential
\* of CurrentUser or Logout or an event write is answered 401 as an invalid
\* token, resolves no account and changes nothing.
C4_TokenTypesNotInterchangeable ==
    /\ (req.op = "refresh" /\ req.body.type = "access") =>
          /\ resp.status = 401
          /\ NoTokens(resp)
          /\ StoresUnchanged
    /\ (req.op = "logout" /\ req.body.type = "access") =>
          /\ resp.status \in {400, 401}
          /\ StoresUnchanged
    /\ (/\ req.op \in {"user", "logout", "events"}
        /\ req.method \notin SAFE_METHODS \/ req.op = "user"
        /\ req.bearer.type = "refresh") =>
          /\ resp.status = 401
          /\ resp.detail = "token_not_valid"
          /\ resp.user = NoUser
          /\ StoresUnchanged

\* An unexpired access token was sent to Refresh and rejected.
C4_Witness ==
    /\ req.op = "refresh"
    /\ req.body.type = "access"
    /\ req.at < req.body.exp
    /\ resp.status = 401

\* The causes for which a Logout fails, stated on the request and on the
\* history before it.
LogoutFailureCause ==
    \/ req.body = NoToken
    \/ req.body = Malformed
    \/ req.body.type = "access"
    \/ req.at >= req.body.exp
    \/ req.body.jti \in old.loggedOut
    \/ req.body.jti \in old.used

AuthenticatedRequest ==
    /\ req.bearer.type = "access"
    /\ req.at < req.bearer.exp

\* C5: a Logout by an authenticated actor that fails - no refresh field, a
\* malformed token, an access token, an expired token, a token blacklisted by
\* an earlier Logout or by rotation - is answered with one and the same 400
\* response, and leaves the blacklist and the account store unchanged.
C5_LogoutFailureIsGeneric ==
    (req.op = "logout" /\ AuthenticatedRequest) =>
        /\ LogoutFailureCause =>
              /\ resp = Response(400, "Token invalido ou ja utilizado.")
              /\ StoresUnchanged
        /\ ~LogoutFailureCause => resp.status = 205

\* An authenticated Logout with a refresh token that rotation had blacklisted
\* was answered 400.
C5_Witness ==
    /\ req.op = "logout"
    /\ AuthenticatedRequest
    /\ req.body.jti \in old.used
    /\ req.at < req.body.exp
    /\ resp.status = 400

\* C6: a Logout without an authenticated actor (no bearer, or a bearer that is
\* not a valid access token) is answered 401 and the blacklist is unchanged,
\* even when the refresh token of the body is valid.
C6_LogoutRequiresActor ==
    (req.op = "logout" /\ ~AuthenticatedRequest) =>
        /\ resp.status = 401
        /\ StoresUnchanged
        /\ loggedOut = old.loggedOut

\* A Logout without a bearer, carrying a valid refresh token, was answered 401.
C6_Witness ==
    /\ req.op = "logout"
    /\ req.bearer = NoToken
    /\ req.body.type = "refresh"
    /\ req.at < req.body.exp
    /\ req.body.jti \notin old.blacklist
    /\ resp.status = 401

\* What the caller of Login got wrong, stated on the request and the account
\* store as they were.
LoginFieldAbsent == req.username = Missing \/ req.password = Missing
LoginFieldBlank == req.username = "" \/ req.password = ""
LoginUnknownUser == \A i \in DOMAIN old.users : old.users[i].username # req.username
LoginWrongPassword ==
    \E i \in DOMAIN old.users :
        /\ old.users[i].username = req.username
        /\ old.users[i].password # make_password(req.password)
LoginFailureIsOpaque ==
    (~LoginFieldAbsent /\ ~LoginFieldBlank /\ (LoginUnknownUser \/ LoginWrongPassword)) =>
        resp = Response(401, "no_active_account")
FailedLoginIssuesNothing ==
    resp.status # 200 => NoTokens(resp) /\ issued = old.issued

C8_TokensOnlyAfterLogin ==
    /\ \A t \in issued : t.sub \in loggedIn /\ t.sub \in DOMAIN users
    /\ req.op = "register" => NoTokens(resp) /\ issued = old.issued
    /\ (req.op = "login" /\ resp.status = 200) =>
          \E i \in DOMAIN old.users :
              /\ old.users[i].username = req.username
              /\ old.users[i].password = make_password(req.password)
              /\ resp.access.sub = i
              /\ resp.refresh.sub = i
    /\ (req.op = "refresh" /\ resp.status = 200) =>
          /\ req.body \in old.issued
          /\ resp.access.sub = req.body.sub
          /\ resp.refresh.sub = req.body.sub
    /\ req.op \notin {"login", "refresh"} => issued = old.issued

\* An account was registered while another one held tokens, and no token is
\* bound to the new account.
C8_Witness ==
    /\ req.op = "register"
    /\ resp.status = 201
    /\ issued # {}
    /\ \A t \in issued : t.sub # resp.user.id

\* C2: of two overlapping Refresh requests that carry the same refresh token
\* at most one is answered 200.
C2_AtMostOneRefreshSucceeds ==
    \A c1, c2 \in Clients :
        (c1 # c2 /\ inflight[c1].token = inflight[c2].token) =>
            ~(/\ inflight[c1].pc = "done" /\ inflight[c1].status = 200
              /\ inflight[c2].pc = "done" /\ inflight[c2].status = 200)

(***************************************************************************)
(* The rules of registration a payload breaks, stated on the request and   *)
(* on the account store as it was.                                         *)
(***************************************************************************)
UsernameRuleBroken ==
    \/ req.username \in {Missing, ""}
    \/ \E i \in DOMAIN old.users : old.users[i].username = req.username
EmailRuleBroken ==
    \/ req.email \in {Missing, ""}
    \/ ~IsEmail(req.email)
    \/ \E i \in DOMAIN old.users : old.users[i].email = req.email
PasswordRuleBroken ==
    \/ req.password \in {Missing, ""}
    \/ validate_password(req.password) # {}
ConfirmationRuleBroken == req.password2 \in {Missing, ""}
PasswordMismatch ==
    /\ req.password # Missing
    /\ req.password2 # Missing
    /\ req.password # req.password2

FieldRulesBroken ==
    {f \in {"username", "email", "password", "password2"} :
        \/ f = "username" /\ UsernameRuleBroken
        \/ f = "email" /\ EmailRuleBroken
        \/ f = "password" /\ PasswordRuleBroken
        \/ f = "password2" /\ ConfirmationRuleBroken}
RulesBroken == FieldRulesBroken \cup (IF PasswordMismatch THEN {"password"} ELSE {})

UsernameTaken(us, v) == \E i \in DOMAIN us : us[i].username = v
EmailTaken(us, v) == \E i \in DOMAIN us : us[i].email = v

\* C11: no two accounts share a username and no two share an email; a
\* Register whose username or email equals that of an existing account is
\* answered 400 with an error keyed on that field and leaves the store as it was.
C11_UniqueAccounts ==
    /\ \A i, j \in DOMAIN users :
          i # j => /\ users[i].username # users[j].username
                   /\ users[i].email # users[j].email
    /\ (req.op = "register" /\ UsernameTaken(old.users, req.username)) =>
          /\ resp.status = 400
          /\ "username" \in Keys(resp.errors)
          /\ users = old.users
    /\ (req.op = "register" /\ EmailTaken(old.users, req.email)) =>
          /\ resp.status = 400
          /\ "email" \in Keys(resp.errors)
          /\ users = old.users

(***************************************************************************)
(* The specification of the event endpoints.  It starts where the fixtures *)
(* of events/tests/test_evento_api.py leave the system: an account without *)
(* role flags and a superuser exist and have logged in (the superuser      *)
(* twice, one access-token lifetime apart), and no event is stored.        *)
(***************************************************************************)
TestUser ==
    [id |-> 1, username |-> "testuser", email |-> "test@example.com",
     password |-> make_password("TestPass123!"),
     is_superuser |-> FALSE, is_staff |-> FALSE, last_login |-> -1]
Admin ==
    [id |-> 2, username |-> "admin", email |-> "admin@example.com",
     password |-> make_password("AdminPass123!"),
     is_superuser |-> TRUE, is_staff |-> TRUE, last_login |-> -1]

ExpiredAccess == AccessFor(2, 2, 0)
AdminRefresh == RefreshFor(2, 3, ACCESS_TOKEN_LIFETIME)
AdminAccess == AccessFor(2, 4, ACCESS_TOKEN_LIFETIME)
UserAccess == AccessFor(1, 6, ACCESS_TOKEN_LIFETIME)

InitEvents ==
    /\ users = <<TestUser, Admin>>
    /\ blacklist = {}
    /\ issued = {RefreshFor(2, 1, 0), ExpiredAccess, AdminRefresh, AdminAccess,
                 RefreshFor(1, 5, ACCESS_TOKEN_LIFETIME), UserAccess}
    /\ nextJti = 7
    /\ now = ACCESS_TOKEN_LIFETIME
    /\ ticks = 0
    /\ req = NoReq
    /\ resp = NoResp
    /\ old = [users |-> users, blacklist |-> {}, issued |-> issued,
              used |-> {}, loggedOut |-> {}, events |-> {}, hosted |-> {},
             heap |-> <<>>, lastList |-> NoList]
    /\ used = {}
    /\ loggedOut = {}
    /\ loggedIn = {1, 2}
    /\ inflight = [c \in Clients |-> Idle]
    /\ events = {}
    /\ hosted = {}
    /\ nextEvento = 1
    /\ nextImage = 1
    /\ heap = <<>>
    /\ lastList = NoList

\* The instants the request bodies carry, relative to the clock.
Yesterday == now - MinutesPerDay
Tomorrow == now + MinutesPerDay
AfterDays(n) == Tomorrow + n * MinutesPerDay

AllMethods == {"GET", "HEAD", "OPTIONS", "POST", "PUT", "PATCH", "DELETE"}
Bearers == {NoToken, Malformed, ExpiredAccess, AdminRefresh, UserAccess, AdminAccess}
Titulos == {Missing, "Novo Evento"}
Inicios == {{}, {Yesterday}, {Tomorrow}}
Fins == {{}, {Yesterday}, {AfterDays(365)}, {AfterDays(365) + 1}, {AfterDays(366)}}
Files == {File("foto.jpg", "jpg", 1024 * 1024),
          File("grande.jpg", "jpg", max_file_size + 1)}
UploadOutcomes == {"ok", "upstream timeout", DestroyFails}
SaveOutcomes == {"ok", "database error"}

EventoData(ti, di, df, im) ==
    [titulo |-> ti, data_inicio |-> di, data_fim |-> df, imagem |-> im]
ValidData == EventoData("Novo Evento", {Tomorrow}, {}, NoFile)
DateData(titulos) ==
    {EventoData(ti, di, df, NoFile) : ti \in titulos, di \in Inicios, df \in Fins}
ImageData == {EventoData("Novo Evento", {Tomorrow}, {}, im) : im \in Files}

NextEvents ==
    \/ \E m \in AllMethods, b \in Bearers, pk \in {0, 1} :
          EventoViewSet(m, b, pk, ValidData, "ok", "ok")
    \/ \E pk \in 1..MaxEventos, m \in {"GET", "DELETE"} :
          EventoViewSet(m, AdminAccess, pk, NoData, "ok", "ok")
    \/ \E d \in DateData(Titulos) :
          EventoViewSet("POST", AdminAccess, 0, d, "ok", "ok")
    \/ \E d \in DateData({"Novo Evento"}) :
          EventoViewSet("PUT", AdminAccess, 1, d, "ok", "ok")
    \/ \E d \in DateData({Missing}) :
          EventoViewSet("PATCH", AdminAccess, 1, d, "ok", "ok")
    \/ \E d \in ImageData, up \in UploadOutcomes, sv \in SaveOutcomes :
          \/ EventoViewSet("POST", AdminAccess, 0, d, up, sv)
          \/ \E pk \in 1..MaxEventos :
                EventoViewSet("PUT", AdminAccess, pk, d, up, sv)
    \/ Respond

SpecEvents == InitEvents /\ [][NextEvents]_vars

(***************************************************************************)
(* Claims about the gate of the event endpoints.                           *)
(***************************************************************************)
\* The actor of the last request, as the authenticator resolved it.
Actor == Authenticate(req.bearer, req.at, old.users)
IsSuperuserActor == Actor.kind = "user" /\ old.users[Actor.id].is_superuser
Denied == resp.status \in {401, 403}
BearerIsInvalid == req.bearer # NoToken /\ Actor.kind = "failed"

\* C12: on the event endpoints every safe request (GET, HEAD, OPTIONS) is
\* granted whoever sends it; a write is granted only to an authenticated
\* superuser; a write without credentials is answered 401, a write by an
\* authenticated non-superuser 403, and a denied write leaves the events as
\* they were.
C12_AnyoneReadSuperuserWrite ==
    req.op = "events" =>
        /\ req.method \in SAFE_METHODS => ~Denied
        /\ (req.method \notin SAFE_METHODS /\ ~Denied) => IsSuperuserActor
        /\ (req.method \notin SAFE_METHODS /\ req.bearer = NoToken) =>
              resp.status = 401
        /\ (req.method \notin SAFE_METHODS /\ Actor.kind = "user"
              /\ ~IsSuperuserActor) => resp.status = 403
        /\ (req.method \notin SAFE_METHODS /\ Denied) =>
              /\ events = old.events
              /\ hosted = old.hosted

\* C13: a GET on the event list or on an event carrying an invalid, expired
\* or malformed bearer token is not answered with a token error: it is
\* answered as the same GET without a token is, 200 on the list.
C13_InvalidBearerReadsAsAnonymous ==
    (req.op = "events" /\ req.method = "GET" /\ BearerIsInvalid) =>
        /\ resp.status # 401
        /\ req.pk = 0 => resp.status = 200

(***************************************************************************)
(* The specification of the object-level check, over every actor and every *)
(* object shape.                                                           *)
(***************************************************************************)
Actors == {Anonymous} \cup {[kind |-> "user", id |-> i] : i \in DOMAIN users}
Refs == {0} \cup DOMAIN users
Objects ==
    {Object(attrs, u, o, a) :
        attrs \in SUBSET {"user", "owner", "author"},
        u \in Refs, o \in Refs, a \in Refs}

NextOwner ==
    \/ \E actor \in Actors, obj \in Objects : CheckObjectPermission(actor, obj)
    \/ Respond

SpecOwner == InitEvents /\ [][NextOwner]_vars

\* The owner reference of the object of the last request: the first present
\* (held and not None) of user, owner, author; 0 when there is none.
Present(name) == name \in req.obj.attrs /\ req.obj[name] # 0
OwnerReference ==
    IF Present("user") THEN req.obj.user
    ELSE IF Present("owner") THEN req.obj.owner
    ELSE IF Present("author") THEN req.obj.author
    ELSE 0
ActorIsSuperuser == req.actor.kind = "user" /\ users[req.actor.id].is_superuser
ActorIsOwner ==
    OwnerReference # 0 /\ req.actor.kind = "user" /\ req.actor.id = OwnerReference

\* C14: the object check grants access exactly when the actor is a superuser
\* or the owner reference of the object (the first present of user, owner,
\* author) is the actor; an object with none of the three is denied to every
\* non-superuser actor, the anonymous one included, and the check always answers.
C14_OwnerOrSuperuser ==
    req.op = "object" =>
        /\ resp.status \in {200, 401, 403}
        /\ resp.status = 200 <=> (ActorIsSuperuser \/ ActorIsOwner)
        /\ (req.obj.attrs = {} /\ ~ActorIsSuperuser) => resp.status # 200

\* A non-superuser is granted an object that has no user, whose owner is the
\* actor and whose author is someone else.
C14_Witness ==
    /\ req.op = "object"
    /\ ~ActorIsSuperuser
    /\ "user" \notin req.obj.attrs
    /\ Present("owner") /\ Present("author")
    /\ req.obj.author # req.obj.owner
    /\ ActorIsOwner
    /\ resp.status = 200

(***************************************************************************)
(* Claims about the dates of events.                                       *)
(***************************************************************************)
\* C15: every stored event with an end date has it at or after its start
\* date, whatever creations and full or partial updates a superuser made.
C15_EndNotBeforeStart ==
    \A e \in events :
        e.data_fim # {} => Val(e.data_fim) >= Val(e.data_inicio)

\* The last request is a creation that passed the gate.
CreateRequest == req.op = "events" /\ req.method = "POST" /\ req.pk = 0 /\ ~Denied
\* Its body carries an end date before its start date.
EndBeforeStart ==
    /\ req.data.data_inicio # {} /\ req.data.data_fim # {}
    /\ Val(req.data.data_fim) < Val(req.data.data_inicio)
\* Every field of its body passes the validation of the field itself.
EventoFieldsPass ==
    /\ req.data.titulo # Missing
    /\ req.data.data_inicio # {}
    /\ Val(req.data.data_inicio) >= req.at

\* C16 as stated: a creation whose end date is before its start date is
\* answered 400 with an error keyed on data_fim, and no event is added.
C16_AsStated ==
    (CreateRequest /\ EndBeforeStart) =>
        /\ resp.status = 400
        /\ "data_fim" \in Keys(resp.errors)
        /\ events = old.events

\* C16: a creation whose end date is before its start date is answered 400
\* and adds no event; the error is keyed on data_fim exactly when every
\* field of the body passes its own validation, otherwise the map holds the
\* keys of the failing fields.
C16_EndBeforeStartRejected ==
    (CreateRequest /\ EndBeforeStart) =>
        /\ resp.status = 400
        /\ Keys(resp.errors) # {}
        /\ "data_fim" \in Keys(resp.errors) <=> EventoFieldsPass
        /\ events = old.events

C16_Witness ==
    /\ CreateRequest /\ EndBeforeStart
    /\ resp.status = 400
    /\ Keys(resp.errors) = {"data_fim"}
    /\ events = old.events

\* The last request is a creation or an update that was accepted.
WriteAccepted ==
    /\ req.op = "events"
    /\ req.method \in {"POST", "PUT", "PATCH"}
    /\ resp.status \in {200, 201}

\* C17: an event accepted by a creation or an update whose body carries both
\* dates lasts at most 365 days; a body whose duration exceeds 365 days by
\* any amount, even by less than a day, is not accepted.
C17_DurationAtMost365Days ==
    (WriteAccepted /\ req.data.data_inicio # {} /\ req.data.data_fim # {}) =>
        Val(req.data.data_fim) - Val(req.data.data_inicio)
            <= MaxDuracaoDias * MinutesPerDay

\* The last request is an update of a stored event that passed the gate.
UpdateRequest ==
    /\ req.op = "events" /\ req.method \in {"PUT", "PATCH"} /\ ~Denied
    /\ \E e \in old.events : e.id = req.pk
\* Its body carries a start date before the instant of the request.
StartInPast ==
    req.data.data_inicio # {} /\ Val(req.data.data_inicio) < req.at
\* The body breaks a rule other than the one on past start dates.
OtherRuleBroken ==
    \/ req.method = "PUT" /\ req.data.titulo = Missing
    \/ /\ req.data.data_inicio # {} /\ req.data.data_fim # {}
       /\ \/ Val(req.data.data_fim) < Val(req.data.data_inicio)
          \/ Val(req.data.data_fim) - Val(req.data.data_inicio)
                >= (MaxDuracaoDias + 1) * MinutesPerDay

\* C18: a creation whose start date is in the past is answered 400 with an
\* error keyed on data_inicio and adds no event; an update of a stored event
\* that sets a start date in the past is never refused for that: it is
\* accepted, and the date stored, unless the body breaks another rule.
C18_PastStartOnlyOnCreate ==
    /\ (CreateRequest /\ StartInPast) =>
          /\ resp.status = 400
          /\ "data_inicio" \in Keys(resp.errors)
          /\ events = old.events
    /\ (UpdateRequest /\ StartInPast) =>
          /\ "data_inicio" \notin Keys(resp.errors)
          /\ resp.status = 200 <=> ~OtherRuleBroken
          /\ resp.status = 200 =>
                \E e \in events :
                    e.id = req.pk /\ e.data_inicio = req.data.data_inicio

\* An event created with a future start is moved to the past by an update.
C18_Witness ==
    /\ UpdateRequest /\ StartInPast
    /\ resp.status = 200
    /\ \E e \in old.events : e.id = req.pk /\ Val(e.data_inicio) >= req.at
    /\ \E e \in events : e.id = req.pk /\ Val(e.data_inicio) < req.at

(***************************************************************************)
(* Claims about the image of a created event.                              *)
(***************************************************************************)
\* The last request is a creation with an image whose body passed validation.
CreateWithImage ==
    /\ CreateRequest
    /\ req.data.imagem # NoFile
    /\ EventoFieldsPass /\ ~OtherRuleBroken
\* The message validate_image or the hosting service failed its upload with.
UpstreamMessage ==
    IF req.data.imagem.size > max_file_size \/ req.data.imagem.ext \notin allowed_formats
    THEN validate_image(req.data.imagem)[1]
    ELSE req.upload
UploadFails == UpstreamMessage \notin {"ok", DestroyFails}

\* C19: a creation with an image whose upload fails, by validation of the
\* file or by an error of the hosting service, leaves the events as they
\* were, leaves no event referencing an image that is not hosted, and is
\* answered 400 with one error, keyed on imagem, that embeds the message of
\* the failure.
C19_FailedUploadDeletesEvent ==
    (CreateWithImage /\ UploadFails) =>
        /\ resp.status = 400
        /\ Keys(resp.errors) = {"imagem"}
        /\ \A e \in resp.errors :
              /\ e[2][1] = UploadFailed
              /\ e[2][Len(e[2])] = UpstreamMessage
        /\ events = old.events
        /\ hosted = old.hosted
        /\ \A e \in events : e.imagem_destaque # 0 => e.imagem_destaque \in hosted

\* The hosting service refuses a valid file during a creation.
C19_Witness ==
    /\ CreateWithImage
    /\ req.data.imagem.size <= max_file_size
    /\ req.upload = "upstream timeout"
    /\ resp.status = 400
    /\ Keys(resp.errors) = {"imagem"}
    /\ events = old.events

\* C20: when a creation with an image ends, an image of this request is
\* hosted exactly when a stored event references it: no uploaded image is
\* left without its event, and no event is left referencing an image that
\* is not hosted.
C20_NoOrphanedImage ==
    CreateWithImage =>
        /\ \A i \in hosted \ old.hosted :
              \E e \in events : e.imagem_destaque = i
        /\ \A e \in events \ old.events :
              e.imagem_destaque # 0 => e.imagem_destaque \in hosted

(***************************************************************************)
(* The specification of the paginated list.  The store is the one          *)
(* test_list_eventos_pagination builds, for every size up to MaxPaged:     *)
(* published events, the i-th starting i days from now.                    *)
(***************************************************************************)
PagedEvento(i) ==
    [id |-> i, titulo |-> "Evento A",
     data_inicio |-> {ACCESS_TOKEN_LIFETIME + (i - 1) * MinutesPerDay},
     data_fim |-> {}, status |-> "publicado",
     created_at |-> ACCESS_TOKEN_LIFETIME, imagem_destaque |-> 0]

InitStore(rows, h) ==
    /\ users = <<TestUser, Admin>>
    /\ blacklist = {}
    /\ issued = {RefreshFor(2, 1, 0), ExpiredAccess, AdminRefresh, AdminAccess,
                 RefreshFor(1, 5, ACCESS_TOKEN_LIFETIME), UserAccess}
    /\ nextJti = 7
    /\ now = ACCESS_TOKEN_LIFETIME
    /\ ticks = 0
    /\ req = NoReq
    /\ resp = NoResp
    /\ used = {}
    /\ loggedOut = {}
    /\ loggedIn = {1, 2}
    /\ inflight = [c \in Clients |-> Idle]
    /\ events = rows
    /\ hosted = {}
    /\ nextEvento = Max(0, CHOOSE i \in Ids(rows) \cup {0} : \A j \in Ids(rows) : j <= i) + 1
    /\ nextImage = 1
    /\ heap = h
    /\ lastList = NoList
    /\ old = [users |-> users, blacklist |-> {}, issued |-> issued,
              used |-> {}, loggedOut |-> {}, events |-> rows, hosted |-> {},
              heap |-> h, lastList |-> NoList]

InitPages ==
    \E n \in 0..MaxPaged :
        InitStore({PagedEvento(i) : i \in 1..n}, [i \in 1..n |-> i])

PageSizes == {{}, {0}, {1}, {4}, {page_size}, {2 * page_size}, {max_page_size + 1}}
PageNumbers == {{}, {0}, {1}, {2}, {3}, {4}, {5}}
PageQuery(p, ps) == [NoQuery EXCEPT !.page = p, !.page_size = ps]

NextPages ==
    \/ \E m \in {"GET", "HEAD"}, p \in PageNumbers, ps \in PageSizes :
          EventoGet(m, NoToken, "list", 0, PageQuery(p, ps))
    \/ Respond

SpecPages == InitPages /\ [][NextPages]_vars

(***************************************************************************)
(* C21: the pagination law.                                                *)
(***************************************************************************)
ListAnswered == req.op = "events" /\ resp.status = 200 /\ resp.detail = "list"

\* The lengths of the pages 1..n of the list the request asked for, summed.
RECURSIVE ResultsUpTo(_)
ResultsUpTo(n) ==
    IF n = 0 THEN 0
    ELSE Len(EventoList([req.query EXCEPT !.page = {n}], req.at, heap).results)
         + ResultsUpTo(n - 1)

\* C21 as stated: for every N >= 0 events and effective page size P, the list
\* answers total_pages = ceil(N / P) and count = N, and the lengths of the
\* pages 1..total_pages add up to count.
C21_AsStated ==
    ListAnswered =>
        /\ resp.page_size \in 1..max_page_size
        /\ resp.count = Cardinality(events)
        /\ resp.total_pages = Ceil(Cardinality(events), resp.page_size)
        /\ ResultsUpTo(resp.total_pages) = resp.count

\* C21: for every N >= 0 events and effective page size P (10 by default,
\* at most 100), the list answers count = N and total_pages = ceil(N / P),
\* except that an empty list has one (empty) page; the lengths of the pages
\* 1..total_pages add up to count.
C21_PaginationLaw ==
    ListAnswered =>
        /\ resp.page_size \in 1..max_page_size
        /\ req.query.page_size = {} => resp.page_size = page_size
        /\ resp.count = Cardinality(events)
        /\ resp.total_pages = IF resp.count = 0 THEN 1
                              ELSE Ceil(resp.count, resp.page_size)
        /\ ResultsUpTo(resp.total_pages) = resp.count

\* 15 events and the default page size: page 2 holds the remaining 5 of 2 pages.
C21_Witness ==
    /\ ListAnswered
    /\ req.query = PageQuery({2}, {})
    /\ resp.count = 15
    /\ resp.total_pages = 2
    /\ Len(resp.results) = 5
    /\ Len(EventoList(PageQuery({1}, {}), req.at, heap).results) = 10

(***************************************************************************)
(* The specification of the ordered list.  The stores are the small        *)
(* subsets of a catalogue of rows with equal and different start dates,    *)
(* creation times and titles; between two requests storage may come to     *)
(* yield the rows in another order.                                        *)
(***************************************************************************)
Evento(id, titulo, inicio, fim, status, created) ==
    [id |-> id, titulo |-> titulo, data_inicio |-> {inicio}, data_fim |-> fim,
     status |-> status, created_at |-> created, imagem_destaque |-> 0]
Start == ACCESS_TOKEN_LIFETIME
InDays(n) == Start + n * MinutesPerDay
Catalogue ==
    {Evento(1, "Evento A", InDays(1), {}, "publicado", 1),
     Evento(2, "Evento B", InDays(1), {}, "publicado", 2),
     Evento(3, "Evento A", InDays(60), {InDays(62)}, "publicado", 3),
     Evento(4, "Novo Evento", Start, {}, "publicado", 3),
     Evento(5, "Evento B", InDays(1), {}, "rascunho", 5),
     Evento(6, "Novo Evento", Start - 1, {InDays(1)}, "publicado", 6),
     Evento(7, "Evento A", InDays(-3), {InDays(-3) + 1}, "finalizado", 7)}

Orders(S) ==
    {h \in [1..Cardinality(S) -> S] : \A i, j \in DOMAIN h : h[i] = h[j] => i = j}
RECURSIVE Ascending(_)
Ascending(S) ==
    IF S = {} THEN <<>>
    ELSE LET least == CHOOSE i \in S : \A j \in S : i <= j
         IN <<least>> \o Ascending(S \ {least})

InitList ==
    \E rows \in SUBSET Catalogue :
        /\ Cardinality(rows) <= MaxListed
        /\ InitStore(rows, Ascending(Ids(rows)))

\* The table is scanned in another physical order (the rows are the same).
Reorder ==
    /\ req = NoReq
    /\ \E h \in Orders(Ids(events)) : h # heap /\ heap' = h
    /\ UNCHANGED <<users, blacklist, issued, nextJti, now, ticks, req, resp,
                   old, used, loggedOut, loggedIn, inflight, events, hosted,
                   nextEvento, nextImage, lastList>>

Orderings == {"", "data_inicio", "-created_at", "titulo", "slug"}

NextList ==
    \/ \E o \in Orderings, f \in {"", "true"} :
          EventoGet("GET", NoToken, "list", 0,
                    [NoQuery EXCEPT !.ordering = o, !.proximos = f])
    \/ Reorder
    \/ Respond

SpecList == InitList /\ [][NextList]_vars

(***************************************************************************)
(* C22: the list is deterministic.                                         *)
(***************************************************************************)
ResultIds(results) == [i \in DOMAIN results |-> results[i].id]

\* The list route was asked the same question before, and no write has
\* changed the store since.
AskedBefore ==
    /\ ListAnswered
    /\ old.lastList # NoList
    /\ old.lastList.query = req.query

\* C22: two GET /events with the same parameters and no write between them
\* answer the same count and the same results in the same order.
C22_DeterministicListing ==
    AskedBefore =>
        /\ resp.count = old.lastList.count
        /\ ResultIds(resp.results) = old.lastList.ids

(***************************************************************************)
(* The specification of the detail route and of the extra actions, over    *)
(* every subset of the catalogue, stored in insertion order or in the      *)
(* reverse of it.                                                          *)
(***************************************************************************)
Reverse(s) == [i \in DOMAIN s |-> s[Len(s) + 1 - i]]

InitViews ==
    \E rows \in SUBSET Catalogue :
        \E h \in {Ascending(Ids(rows)), Reverse(Ascending(Ids(rows)))} :
            InitStore(rows, h)

Limits == {{}, {-1}, {0}, {1}, {DestaquesLimit}}
Flags == {"", "true"}

NextViews ==
    \/ \E l \in Limits, f \in Flags :
          EventoGet("GET", NoToken, "proximos", 0,
                    [NoQuery EXCEPT !.limit = l, !.passados = f])
    \/ \E l \in Limits, f \in Flags :
          EventoGet("GET", NoToken, "destaques", 0,
                    [NoQuery EXCEPT !.limit = l, !.passados = f])
    \/ \E l \in Limits :
          EventoGet("GET", NoToken, "passados", 0, [NoQuery EXCEPT !.limit = l])
    \/ \E pk \in Ids(Catalogue) :
          EventoGet("GET", NoToken, "retrieve", pk, NoQuery)
    \/ Respond

SpecViews == InitViews /\ [][NextViews]_vars

(***************************************************************************)
(* C23: destaques is proximos with limit 3.                                *)
(***************************************************************************)
ViewAnswered(route) ==
    req.op = "events" /\ req.route = route /\ resp.status = 200

\* The stored row a serialized event stands for.
Row(r) == CHOOSE e \in events : e.id = r.id
Qualifying ==
    {e \in get_queryset(req.query, req.at) :
        Val(e.data_inicio) >= req.at /\ e.status = "publicado"}
UpcomingOnly(results, limit) ==
    /\ Len(results) = Min(limit, Cardinality(Qualifying))
    /\ \A i \in DOMAIN results :
          /\ Row(results[i]) \in Qualifying
          /\ \A j \in DOMAIN results :
                i < j => /\ results[i].id # results[j].id
                         /\ Val(results[i].data_inicio) <= Val(results[j].data_inicio)
    /\ \A e \in Qualifying :
          e.id \in {results[i].id : i \in DOMAIN results}
          \/ \A i \in DOMAIN results : Val(results[i].data_inicio) <= Val(e.data_inicio)

\* C23: for every store and every instant, destaques answers exactly the
\* sequence proximos answers with limit = 3: the published events that start
\* now or later, soonest first, at most three; neither view shows a draft,
\* a finalized or a past event.
C23_DestaquesIsProximos3 ==
    /\ ViewAnswered("destaques") =>
          /\ resp.results =
                proximos([req.query EXCEPT !.limit = {3}], req.at, heap).results
          /\ UpcomingOnly(resp.results, 3)
    /\ ViewAnswered("proximos") =>
          UpcomingOnly(resp.results,
                       IF req.query.limit = {} THEN 10 ELSE Val(req.query.limit))

\* destaques cuts four upcoming published events to three while the store
\* also holds a draft, a finalized and a past event.
C23_Witness ==
    /\ ViewAnswered("destaques")
    /\ events = Catalogue
    /\ req.query.passados = ""
    /\ Cardinality(Qualifying) = 4
    /\ Len(resp.results) = 3

(***************************************************************************)
(* C24: the derived fields of an event.                                    *)
(***************************************************************************)
\* k is the number of whole days in delta minutes, rounded down.
WholeDays(k, delta) ==
    k * MinutesPerDay <= delta /\ delta < (k + 1) * MinutesPerDay

DerivedFields(r, t) ==
    LET e == Row(r)
        inicio == Val(e.data_inicio)
    IN /\ r.duracao_dias >= 1
       /\ e.data_fim = {} => r.duracao_dias = 1
       /\ e.data_fim # {} =>
             \E k \in -400..400 :
                 /\ WholeDays(k, Val(e.data_fim) - inicio)
                 /\ r.duracao_dias = Max(1, k + 1)
       /\ r.ja_aconteceu = (t > (IF e.data_fim # {} THEN Val(e.data_fim) ELSE inicio))
       /\ WholeDays(r.dias_ate_evento, inicio - t)
       /\ inicio < t => r.dias_ate_evento < 0

Addressed(rows) == {e \in rows : e.id = req.pk}
\* The last request is an update that replaced the cover image of its event:
\* the old image was then to be removed from the hosting service.
CoverReplaced ==
    /\ UpdateRequest
    /\ \E o \in Addressed(old.events), e \in Addressed(events) :
          o.imagem_destaque # 0 /\ e.imagem_destaque # o.imagem_destaque
\* The removal failed.
DestroyFailed == CoverReplaced /\ req.upload = DestroyFails

\* C25: no failure of the hosting service is hidden: a request during which
\* an upload or the removal of the previous image fails is answered with an
\* error.
C25_FailuresSurface ==
    /\ (CreateWithImage /\ UploadFails) => resp.status >= 400
    /\ DestroyFailed => resp.status >= 400

\* An update with a new image was answered with an error on the image.
ImageRejected ==
    /\ UpdateRequest
    /\ req.data.imagem # NoFile
    /\ resp.status = 400
    /\ Keys(resp.errors) = {"imagem"}

\* C30: an update with a new image that is answered with an error on the
\* image changes nothing: the events are as they were, and so are the hosted
\* images (the previous cover is still there).
C30_FailedImageUpdateChangesNothing ==
    ImageRejected => events = old.events /\ hosted = old.hosted

(***************************************************************************)
(* Overlapping Register requests.  is_valid (views.py:122) reads the User  *)
(* table and serializer.save() (views.py:123) writes it, in two database   *)
(* statements with no transaction around them; requests of other clients   *)
(* may run between the two.  auth_user has a unique index on username and  *)
(* none on email.                                                          *)
(***************************************************************************)
Checked(p) == [pc |-> "checked", payload |-> p, status |-> 0]
Answered(p, status) == [pc |-> "answered", payload |-> p, status |-> status]

\* serializer.is_valid(raise_exception=True).
RegisterCheck(c, p) ==
    /\ req = NoReq
    /\ inflight[c] = Idle
    /\ inflight' = [inflight EXCEPT ![c] =
                      IF RegisterErrors(p, users) # {} THEN Answered(p, 400)
                      ELSE Checked(p)]
    /\ UNCHANGED <<eventStore, users, blacklist, issued, nextJti, now, ticks,
                   req, resp, old, used, loggedOut, loggedIn>>

\* serializer.save(): the INSERT; a username that is stored by now violates
\* the unique index, and the IntegrityError is answered 500.
RegisterInsert(c) ==
    LET p == inflight[c].payload IN
    /\ inflight[c].pc = "checked"
    /\ IF UserByName(users, p.username) # {}
       THEN /\ users' = users
            /\ inflight' = [inflight EXCEPT ![c] = Answered(p, 500)]
       ELSE /\ users' = create_user(users, p)
            /\ inflight' = [inflight EXCEPT ![c] = Answered(p, 201)]
    /\ UNCHANGED <<eventStore, blacklist, issued, nextJti, now, ticks, req,
                   resp, old, used, loggedOut, loggedIn>>

RacePayloads ==
    {Payload(u, e, "TestPass123!", "TestPass123!") :
        u \in {"testuser", "different_user"},
        e \in {"test@example.com", "test@EXAMPLE.COM", "other@example.com"}}

NextRace ==
    \/ \E c \in Clients, p \in RacePayloads : RegisterCheck(c, p)
    \/ \E c \in Clients : RegisterInsert(c)

SpecRace == Init /\ [][NextRace]_vars

\* C26: however the checks and the inserts of two Register requests
\* interleave, no two accounts hold the same email, and no two the same
\* username.
C26_AtMostOneAccount ==
    \A i, j \in DOMAIN users :
        (users[i].email = users[j].email \/ users[i].username = users[j].username)
            => i = j

(***************************************************************************)
(* C27, C28: whose tokens a Logout revokes.                                *)
(***************************************************************************)
\* The Logout was authenticated as one account and carried the valid refresh
\* token of another.
LogoutWithForeignToken ==
    /\ req.op = "logout"
    /\ AuthenticatedRequest
    /\ req.body.type = "refresh"
    /\ req.body.sub # req.bearer.sub
    /\ req.body.jti \notin old.blacklist
    /\ req.at < req.body.exp

\* C27: a Logout authenticated with the access token of A that carries the
\* valid refresh token of another account B does not blacklist B's token.
C27_LogoutKeepsForeignToken ==
    LogoutWithForeignToken => req.body.jti \notin blacklist

\* Login and Refresh issue their two tokens together, with consecutive jti.
IssuedTogether(a, r) == (a.jti + 1) \div 2 = (r.jti + 1) \div 2

\* The request presents an unexpired access token whose refresh token a
\* Logout has revoked before.
PresentsRevokedAccess ==
    /\ AuthenticatedRequest
    /\ \E r \in issued :
          /\ r.type = "refresh"
          /\ r.jti \in old.loggedOut
          /\ IssuedTogether(req.bearer, r)

\* C28: after a successful Logout the access token issued together with the
\* revoked refresh token is refused (401) by CurrentUser, by Logout and by
\* the writes to the events, although it has not expired.
C28_AccessRevokedWithRefresh ==
    /\ PresentsRevokedAccess
    /\ \/ req.op \in {"user", "logout"}
       \/ req.op = "events" /\ req.method \notin SAFE_METHODS
    => resp.status = 401

(***************************************************************************)
(* C29: Register grants no role.                                           *)
(***************************************************************************)
AuthOps == {"register", "login", "refresh", "logout", "user"}
Registered ==
    {i \in DOMAIN users : users[i].username \in {p.username : p \in AuthPayloads}}
NoRole(u) == ~u.is_superuser /\ ~u.is_staff

\* C29: an account created by Register has is_superuser = is_staff = false
\* whatever else its payload carried; no Register, Login, Refresh, Logout or
\* CurrentUser changes the flags of an account; and a write to the events by
\* such an account is refused and changes nothing.
C29_RegisterGrantsNoRole ==
    /\ \A i \in Registered : NoRole(users[i])
    /\ (req.op = "register" /\ resp.status = 201) =>
          ~resp.user.is_superuser /\ ~resp.user.is_staff
    /\ req.op \in AuthOps =>
          \A i \in DOMAIN old.users :
              /\ users[i].is_superuser = old.users[i].is_superuser
              /\ users[i].is_staff = old.users[i].is_staff
    /\ ( /\ req.op = "events" /\ req.method \notin SAFE_METHODS
         /\ AuthenticatedRequest /\ req.bearer.sub \in Registered )
       => resp.status = 403 /\ events = old.events

\* A payload that asks for both flags is registered, without them.
C29_Witness ==
    /\ req.op = "register"
    /\ req.extra = {"is_superuser", "is_staff"}
    /\ resp.status = 201
    /\ NoRole(users[resp.user.id])
    /\ ~resp.user.is_superuser

====
